---- MODULE Spec2Model ----
(***************************************************************************)
(* Model of the download bot (src/bot.py).                                 *)
(*                                                                         *)
(* The handlers are asyncio coroutines run by one event loop.  A coroutine *)
(* runs without interruption from one `await` to the next; at an `await`   *)
(* (a Telegram reply in flight, asyncio.sleep) it is suspended.  An action *)
(* of the model is the code from one await to the next.  The download call *)
(* (download_audio / download_video) is an ordinary blocking call, not an  *)
(* await: the coroutine keeps the loop while it runs, and `running` names  *)
(* it (0 when the loop is free).                                           *)
(*                                                                         *)
(* Specification Spec is the bot as main() builds it: updates arrive and   *)
(* are queued, and the Application calls the handler of one update at a    *)
(* time (process_audio, process_video, stop).                              *)
(* Specification SpecLive is Spec with a fair loop: a coroutine that stays *)
(* ready is run.                                                           *)
(* Specification SpecRetry exercises one call of one of the three send     *)
(* helpers with any max_retries and any outcome of each attempt.           *)
(* Specification SpecSession exercises the code that touches               *)
(* active_downloads, called in any order for any users.                    *)
(***************************************************************************)
EXTENDS Integers, Sequences, FiniteSets

\* ---------------------------------------------------------------- bounds
MaxTasks == 2
MaxRetriesBound == 4

\* ------------------------------------------------------- program constants
DefaultMaxRetries == 3
SizeLimitMB == 50
BytesPerMB == 1024 * 1024

\* ------------------------------------------------------------- value sets
Tasks == 1..MaxTasks
Users == {"u1", "u2"}
\* every download lands at the same path, so that runs interfere through the
\* file system as much as they can
Paths == {"p1"}
Helpers == {"message", "audio", "video"}
Outcomes == {"ok", "transient", "other"}
\* sizes in bytes a produced artifact may have: exactly the limit and one
\* byte more
Sizes == {SizeLimitMB * BytesPerMB, SizeLimitMB * BytesPerMB + 1}

NoToken == 0
NoFile == 0 - 1
NoPath == "none"
\* No request: user, kind ("audio", "video", "stop"; "used" once a run has
\* read it for the last time), msg (update.message is set), and what the
\* update met when it arrived (held, inSteps: see Arrive).
NoReq ==
  [user |-> "none", kind |-> "none", msg |-> TRUE, held |-> NoToken,
   inSteps |-> FALSE]

\* ------------------------------------------------------------- exceptions
\* An exception is its class and its message (str(e)), a sequence of
\* characters.
Text_cancelled == <<"c", "a", "n", "c", "e", "l", "l", "e", "d">>
Text_Download == <<"D", "o", "w", "n", "l", "o", "a", "d", " ">>

\* What the download may raise: "Download cancelled", "DOWNLOAD CANCELLED",
\* "Download canceled" (one l) and "Download timed out".
FetchErrors ==
  {[cls |-> "Exception", msg |-> Text_Download \o Text_cancelled],
   [cls |-> "Exception",
    msg |-> <<"D", "O", "W", "N", "L", "O", "A", "D", " ",
              "C", "A", "N", "C", "E", "L", "L", "E", "D">>],
   [cls |-> "Exception",
    msg |-> Text_Download \o <<"c", "a", "n", "c", "e", "l", "e", "d">>],
   [cls |-> "Exception",
    msg |-> Text_Download \o <<"t", "i", "m", "e", "d", " ", "o", "u", "t">>]}

\* YOUTUBE_URL_PATTERN.search(text) is None: None has no attribute group.
NoMatchError ==
  [cls |-> "AttributeError",
   msg |-> <<"n", "o", " ", "a", "t", "t", "r", "i", "b", "u", "t", "e", " ",
             "g", "r", "o", "u", "p">>]

\* The file names the download may give its file (the downloader makes the
\* name, from the title): "p1" and "My CANCELLED show".  Every one of them
\* stands at the one place of Paths.
FileNames ==
  {<<"p", "1">>,
   <<"M", "y", " ", "C", "A", "N", "C", "E", "L", "L", "E", "D", " ",
     "s", "h", "o", "w">>}

\* os.remove raises (FileNotFoundError, PermissionError: classes of OSError).
\* str(e) ends with the path of the file, so it holds the name of the file.
RemoveError(name) ==
  [cls |-> "OSError", msg |-> <<"E", "r", "r", "n", "o", " ">> \o name]

NoError == [cls |-> "none", msg |-> <<>>]

\* The classes derived from Exception: those `except Exception` handles.
ExceptionClasses == {"Exception", "AttributeError", "OSError"}

\* What else may be raised while the download call runs: KeyboardInterrupt
\* (the process is interrupted while the blocking call holds the loop), a
\* class derived from BaseException only, which `except Exception` does not
\* handle.
Interrupts == {[cls |-> "KeyboardInterrupt", msg |-> <<>>]}

\* str.lower()
LowerCase ==
  [A |-> "a", B |-> "b", C |-> "c", D |-> "d", E |-> "e", F |-> "f",
   G |-> "g", H |-> "h", I |-> "i", J |-> "j", K |-> "k", L |-> "l",
   M |-> "m", N |-> "n", O |-> "o", P |-> "p", Q |-> "q", R |-> "r",
   S |-> "s", T |-> "t", U |-> "u", V |-> "v", W |-> "w", X |-> "x",
   Y |-> "y", Z |-> "z"]

lower(text) ==
  [i \in 1..Len(text) |->
     IF text[i] \in DOMAIN LowerCase THEN LowerCase[text[i]] ELSE text[i]]

\* `part in text` of two strings
In(part, text) ==
  \E i \in 0..(Len(text) - Len(part)) :
    SubSeq(text, i + 1, i + Len(part)) = part

VARIABLES
  active_downloads, \* user id -> cancellation flag (token), NoToken if absent
  flagSet,          \* the threading.Event objects that are set
  files,            \* path -> size in bytes of the file there, NoFile if none
  running,          \* the coroutine holding the event loop, 0 if none
  pc,               \* position of each update: idle, queued, in its handler
  req,              \* the update: see NoReq
  cancel_flag,      \* the Event the run created (its id is the task id)
  media_file,       \* audio_file / video_file of the run
  snd,              \* the send helper call the coroutine is in
  notices,          \* texts handed to safe_send_message by the run, in order
  hist,             \* per run in progress, what it did (see HistInit)
  ended,            \* the run the last step ended, if it ended one
  raised,           \* the exception raised in the last step, if one was
  lastStop,         \* the call of stop the last step made, if it made one
  call              \* SpecRetry: the helper call under test

vars == <<active_downloads, flagSet, files, running, pc, req, cancel_flag,
          media_file, snd, notices, hist, ended, raised, lastStop, call>>

pipeVars == <<active_downloads, flagSet, files, running, pc, req, cancel_flag,
              media_file, snd, notices, hist, ended, raised, lastStop>>

\* ======================================================================
\* The send helpers: safe_send_message, safe_send_audio, safe_send_video
\* ======================================================================

\* A helper call in progress.  attempt is the loop variable; calls counts the
\* entries into the try body (one send attempt each), sleeps the
\* asyncio.sleep(2) waits, outs the outcome of every attempt in order: "ok",
\* "transient" (TimedOut, NetworkError raised in the try body) or "other" (any
\* other Exception raised there: by the reply or, in safe_send_audio and
\* safe_send_video, by open() of the attachment).
NewCall(helper, max_retries) ==
  [helper |-> helper, max |-> max_retries, attempt |-> 0, phase |-> "entry",
   result |-> FALSE, calls |-> 0, sleeps |-> 0, outs |-> <<>>]

IdleCall == [helper |-> "none", max |-> 0, attempt |-> 0, phase |-> "idle",
             result |-> FALSE, calls |-> 0, sleeps |-> 0, outs |-> <<>>]

Return(h, value) == [h EXCEPT !.phase = "returned", !.result = value]

\* Top of one iteration of `for attempt in range(max_retries)`: falls out of
\* the loop to the final `return False` when the range is exhausted, else
\* enters the try body.
safe_send_message_attempt(h) ==
  IF h.attempt >= h.max
    THEN Return(h, FALSE)
    ELSE [h EXCEPT !.phase = "sending", !.calls = @ + 1]

safe_send_audio_attempt(h) ==
  IF h.attempt >= h.max
    THEN Return(h, FALSE)
    ELSE [h EXCEPT !.phase = "sending", !.calls = @ + 1]

safe_send_video_attempt(h) ==
  IF h.attempt >= h.max
    THEN Return(h, FALSE)
    ELSE [h EXCEPT !.phase = "sending", !.calls = @ + 1]

\* `if attempt < max_retries - 1` in the handler of TimedOut / NetworkError.
RetryableAlways(h) == h.attempt < h.max
RetryableGivesUpEarly(h) == h.attempt < h.max - 2
Retryable(h) == h.attempt < h.max - 1

\* The handler of TimedOut / NetworkError: sleep and go round again unless
\* this was the last attempt.
OnTransient(h) ==
  IF Retryable(h)
    THEN [h EXCEPT !.phase = "sleeping", !.sleeps = @ + 1]
    ELSE Return(h, FALSE)

\* The try body of safe_send_message has finished with outcome o.
safe_send_message_reply_no_return(h, o) ==
  LET g == [h EXCEPT !.outs = Append(@, o)] IN
  CASE o = "ok" -> OnTransient(g)
    [] o = "transient" -> OnTransient(g)
    [] OTHER -> Return(g, FALSE)

safe_send_message_reply(h, o) ==
  LET g == [h EXCEPT !.outs = Append(@, o)] IN
  CASE o = "ok" -> Return(g, TRUE)
    [] o = "transient" -> OnTransient(g)
    [] OTHER -> Return(g, FALSE)

safe_send_audio_reply_no_retry(h, o) ==
  LET g == [h EXCEPT !.outs = Append(@, o)] IN
  CASE o = "ok" -> Return(g, TRUE)
    [] OTHER -> Return(g, FALSE)

safe_send_audio_reply(h, o) ==
  LET g == [h EXCEPT !.outs = Append(@, o)] IN
  CASE o = "ok" -> Return(g, TRUE)
    [] o = "transient" -> OnTransient(g)
    [] OTHER -> Return(g, FALSE)

safe_send_video_reply_retries_all(h, o) ==
  LET g == [h EXCEPT !.outs = Append(@, o)] IN
  CASE o = "ok" -> Return(g, TRUE)
    [] o = "transient" -> OnTransient(g)
    [] OTHER -> OnTransient(g)

safe_send_video_reply(h, o) ==
  LET g == [h EXCEPT !.outs = Append(@, o)] IN
  CASE o = "ok" -> Return(g, TRUE)
    [] o = "transient" -> OnTransient(g)
    [] OTHER -> Return(g, FALSE)

\* Dispatch on the helper the call belongs to.
HelperAttempt(h) ==
  CASE h.helper = "message" -> safe_send_message_attempt(h)
    [] h.helper = "audio" -> safe_send_audio_attempt(h)
    [] OTHER -> safe_send_video_attempt(h)

HelperReply(h, o) ==
  CASE h.helper = "message" -> safe_send_message_reply(h, o)
    [] h.helper = "audio" -> safe_send_audio_reply(h, o)
    [] OTHER -> safe_send_video_reply(h, o)

\* asyncio.sleep(2) is over: the for loop takes the next value of attempt.
HelperWake(h) == HelperAttempt([h EXCEPT !.attempt = @ + 1])

\* Entering a helper: runs up to its first await (or its return).
HelperEnter(helper, max_retries) == HelperAttempt(NewCall(helper, max_retries))

\* A helper call run on a script of attempt outcomes, as far as the script
\* takes it.
RECURSIVE RunCall(_, _)
RunCall(h, script) ==
  CASE h.phase = "entry" -> RunCall(HelperAttempt(h), script)
    [] h.phase = "sleeping" -> RunCall(HelperWake(h), script)
    [] h.phase = "sending" /\ script # <<>> ->
         RunCall(HelperReply(h, Head(script)), Tail(script))
    [] OTHER -> h


\* ======================================================================
\* The bot: process_audio, process_video, stop
\* ======================================================================

\* What a run did so far, kept for the properties:
\*   fetches   calls of download_audio / download_video
\*   made      the path where the download wrote a file, NoPath if it wrote
\*             none (it may write one and raise)
\*   size      what os.path.getsize returned, NoFile if it was not called
\*   xmit      calls of safe_send_audio / safe_send_video
\*   sent      what that call returned: "yes" (True), "no" (False), "none"
\*             while it has not returned
HistInit ==
  [fetches |-> 0, made |-> NoPath, size |-> NoFile, xmit |-> 0,
   sent |-> "none"]

\* The run that has just ended, as its finally block left it (NoneEnded
\* after a step that ended no run):
\*   task      the run
\*   flag      the Event it had created
\*   notices   the texts it handed to safe_send_message, in order
\*   did       its hist
\*   file      its audio_file / video_file, NoPath if the download did not
\*             return
\*   held      what active_downloads held for its user when the finally
\*             block began
\*   escaped   an exception left the coroutine
\*   rmFailed  os.remove raised in the finally block (logged, swallowed)
\*   leftover  the file at audio_file / video_file still existed when the
\*             finally block was over
NoneEnded ==
  [task |-> 0, flag |-> NoToken, notices |-> <<>>, did |-> HistInit,
   file |-> NoPath, held |-> NoToken, escaped |-> FALSE,
   rmFailed |-> FALSE, leftover |-> FALSE]

\* The exception last raised in the try block of a run in the last step:
\* the run, where it was (its pc) and the exception (NoRaise after a step
\* that raised none).
NoRaise == [task |-> 0, at |-> "none", exc |-> NoError]

\* The call of stop just made: its user, the notice it chose, and what the
\* update had met when it arrived (see Arrive).  NoStop after a step that
\* was no call of stop.
NoStop ==
  [user |-> "none", notice |-> "none", held |-> NoToken, inSteps |-> FALSE]

\* A step of a run that does not end it.
GoesOn ==
  /\ ended' = NoneEnded
  /\ lastStop' = NoStop

\* os.path.exists(path)
ExistsUnchecked(fs, path) == path # NoPath
Exists(fs, path) == path # NoPath /\ fs[path] # NoFile

\* file_size = os.path.getsize(f) / (1024 * 1024); file_size > 50.
\* The division by a power of two is exact in floating point for every size
\* a file can have, so the test is the integer comparison below.
TooLarge(bytes) == bytes > SizeLimitMB * BytesPerMB

\* active_downloads[user_id] = cancel_flag
Register(m, u, flag) == [m EXCEPT ![u] = flag]

\* active_downloads.pop(user_id, None)
PopNothing(m, u) == m
PopAll(m, u) == [v \in Users |-> NoToken]
Pop(m, u) == [m EXCEPT ![u] = NoToken]

\* cancel_flag = active_downloads.get(user_id) in stop
LookupAnyUser(m, u) ==
  IF m[u] # NoToken THEN m[u]
  ELSE IF \E v \in Users : m[v] # NoToken
    THEN m[CHOOSE v \in Users : m[v] # NoToken]
    ELSE NoToken
Lookup(m, u) == m[u]

\* The helper the pipeline of a kind transmits with.
XmitHelper(kind) == IF kind = "audio" THEN "audio" ELSE "video"

\* open(path, 'rb'), lines 87 / 110: the outcomes it may have, TRUE when it
\* returns the file, FALSE when it raises.  It raises when there is no file
\* at the path, and it may raise when there is one (the path is a
\* directory, the file may not be read, no file descriptor is left).
Opens(fs, path) == IF Exists(fs, path) THEN BOOLEAN ELSE {FALSE}

\* Lines 87 / 110: safe_send_audio and safe_send_video open the file at the
\* top of every attempt; safe_send_message opens nothing.  When open()
\* raises (opened false), `except Exception` of the helper turns the error
\* into `return False` before anything is awaited.
HelperOpen(h, opened) ==
  IF h.phase = "sending" /\ h.helper # "message" /\ ~opened
    THEN HelperReply(h, "other")
    ELSE h

\* Lines 69 / 88 / 111: the attempt evaluates update.message.reply_text /
\* reply_audio / reply_video.  update.message is None for an update that
\* carries no new message (an edited message: msg false), the attribute
\* access raises AttributeError, and `except Exception` of the helper turns
\* it into `return False` before anything is awaited.
HelperSend(h, msg) ==
  IF h.phase = "sending" /\ ~msg THEN HelperReply(h, "other") ELSE h

\* asyncio.sleep(2) is over in a helper call of a run: the next attempt
\* begins, with its open().
HelperResume(h, opened) == HelperOpen(HelperWake(h), opened)

\* The ways the helper call run t is suspended in returns to its caller in
\* the next step of the run: the reply awaited comes with an outcome that
\* ends the call, or the sleep is over and open() of the next attempt raises.
ReturnsNow(t) ==
  LET h == snd[t] IN
    CASE h.phase = "sending" ->
           {g \in {HelperReply(h, o) : o \in Outcomes} : g.phase = "returned"}
      [] h.phase = "sleeping" ->
           {g \in {HelperResume(h, o) : o \in Opens(files, media_file[t])} :
              g.phase = "returned"}
      [] OTHER -> {}

\* Task t is suspended at label lbl in a helper call, and the call returns:
\* the code of the caller runs on in the same step, up to its next await.
\* The value safe_send_message returns is dropped by every caller.
Resumes(t, lbl) ==
  /\ running = 0
  /\ pc[t] = lbl
  /\ ReturnsNow(t) # {}

\* Updates are numbered in the order they arrive.
Arrived(t) == \A r \in Tasks : r < t => pc[r] # "idle"

\* `except Exception as e`
Caught(e) == e.cls \in ExceptionClasses

\* `"cancelled" in error_msg.lower()`, lines 163-164 / 213-214.
MentionsCancelledExact(e) == lower(e.msg) = Text_cancelled
MentionsCancelled(e) == In(Text_cancelled, lower(e.msg))

\* The notice the except block chooses, lines 164-167 / 214-217.
ErrorNotice(e) == IF MentionsCancelled(e) THEN "cancelled" ELSE "failed"

\* `if success: ... else: ...`, lines 156-159 / 206-209.
ResultNoticeAlwaysSuccess(sent) == "success"
ResultNotice(sent) == IF sent THEN "success" ELSE "network_issue"

\* One Event made when the module is loaded serves every run.
EventShared(t) == 1

\* Line 131 / 181: threading.Event() makes a new object, which is not set.
\* The Event made by run t is named t: no two runs make the same one.
Event(t) == t

\* The file system after the clean-up of lines 170-175 / 220-225.
CleanUp(fs, path, rmOk) ==
  IF Exists(fs, path) /\ rmOk THEN [fs EXCEPT ![path] = NoFile] ELSE fs

\* What the end of a run leaves of its request: the locals go with the
\* coroutine; the user is kept, for the properties.
Forget(r) == [NoReq EXCEPT !.user = r.user]

\* ---------------------------------------------------------------------
\* The code of a run, from one await to the next.
\*
\* While the coroutine of run t runs, its state is the record M: the
\* dictionary (map), the file system (fs), the holder of the loop (run), and
\* of run t its position (pc), request (req), cancel_flag (flag),
\* audio_file / video_file (file), helper call (snd), notices (texts) and
\* history (did); ended and raised say what this step has done so far.
\* Each operator below is a piece of code: it takes M and gives M after the
\* piece.  Cont runs the pieces one after the other until the coroutine is
\* suspended in an await, blocks in the download, or ends.
\* ---------------------------------------------------------------------
Load(t) ==
  [task |-> t, map |-> active_downloads, fs |-> files, run |-> t,
   pc |-> pc[t], req |-> req[t], flag |-> cancel_flag[t],
   file |-> media_file[t], snd |-> snd[t], texts |-> notices[t],
   did |-> hist[t], ended |-> NoneEnded, raised |-> NoRaise]

\* The step of the coroutine of update t ends with the state R its code has
\* reached.
Put(t, R) ==
  \E M \in {R} :
    /\ active_downloads' = M.map
    /\ files' = M.fs
    /\ running' = M.run
    /\ pc' = [pc EXCEPT ![t] = M.pc]
    /\ req' = [req EXCEPT ![t] = M.req]
    /\ cancel_flag' = [cancel_flag EXCEPT ![t] = M.flag]
    /\ media_file' = [media_file EXCEPT ![t] = M.file]
    /\ snd' = [snd EXCEPT ![t] = M.snd]
    /\ notices' = [notices EXCEPT ![t] = M.texts]
    /\ hist' = [hist EXCEPT ![t] = M.did]
    /\ ended' = M.ended
    /\ raised' = M.raised
    /\ UNCHANGED call

\* The same for a step that is no call of stop: no other piece of the code
\* sets or clears an Event.
Store(t, R) ==
  /\ Put(t, R)
  /\ lastStop' = NoStop
  /\ UNCHANGED flagSet

\* The run calls helper call h at label to: the coroutine is suspended in
\* the reply of the first attempt (the loop is free), or the call has
\* returned with nothing awaited and the coroutine runs on.
Calls(M, h, to) ==
  [M EXCEPT !.snd = h,
            !.pc = to,
            !.run = IF h.phase = "returned" THEN M.task ELSE 0]

\* `await safe_send_message(update, text)`: the text is handed to the
\* helper, at label to.
Notify(M, text, to) ==
  Calls([M EXCEPT !.texts = Append(@, text)],
        HelperSend(HelperEnter("message", DefaultMaxRetries), M.req.msg),
        to)

\* Lines 161-167 / 211-217: e is raised in the try block.  except Exception
\* handles it, up to its notice; an exception it does not handle goes on to
\* the finally block.
Except(M, e) ==
  LET R == [M EXCEPT !.raised = [task |-> M.task, at |-> M.pc, exc |-> e]] IN
    IF Caught(e)
      THEN Notify(R, ErrorNotice(e), "notify_error")
      ELSE [R EXCEPT !.pc = "unwind", !.snd = IdleCall]

\* Lines 168-177 / 218-227: finally.  os.remove succeeds or raises (rmFin),
\* and its exception is logged and swallowed.  The coroutine ends and its
\* locals (cancel_flag, audio_file / video_file) go with it; ended keeps
\* what the run did.
Finally(M, rmFin) ==
  LET fs2 == CleanUp(M.fs, M.file, rmFin) IN
    [M EXCEPT
       !.fs = fs2,
       !.ended = [task |-> M.task, flag |-> M.flag, notices |-> M.texts,
                  did |-> M.did, file |-> M.file,
                  held |-> M.map[M.req.user],
                  escaped |-> M.pc = "unwind",
                  rmFailed |-> Exists(M.fs, M.file) /\ ~rmFin,
                  leftover |-> Exists(fs2, M.file)],
       !.map = Pop(M.map, M.req.user),
       !.pc = IF M.pc = "unwind" THEN "escaped" ELSE "done",
       !.req = Forget(M.req),
       !.flag = NoToken,
       !.file = NoPath,
       !.snd = IdleCall,
       !.texts = <<>>,
       !.did = HistInit,
       !.run = 0]

\* Lines 131-132 / 181-182: the flag is created and stored under the user.
NewSession(M) ==
  [M EXCEPT !.flag = Event(M.task),
            !.map = Register(M.map, M.req.user, Event(M.task))]

\* What the code meets on its way in one step: the text holds a URL
\* (urlOk), os.remove of line 149 / 199 succeeds (rmOk) or raises an error
\* that names the file (name), os.remove of the finally block succeeds
\* (rmFin).
Env(urlOk, rmOk, name, rmFin) ==
  [urlOk |-> urlOk, rmOk |-> rmOk, name |-> name, rmFin |-> rmFin]

\* The labels at which a run awaits a helper call.
AwaitLabels ==
  {"notify_start", "notify_missing", "notify_toolarge", "transmit",
   "notify_result", "notify_error"}

\* The code that follows the helper call the run was in at M.pc (the call
\* has returned), or the unwinding of an exception that was not handled,
\* up to the next helper call, the download call or the end of the run:
\*   notify_start     lines 131-140 / 181-190: the flag is created and
\*                    stored, the URL is taken from the text (a text
\*                    without one makes .group(0) raise) and the download
\*                    is called, a blocking call: the coroutine keeps the
\*                    loop
\*   notify_missing   line 144 / 194: return, through finally
\*   notify_toolarge  lines 149-150 / 199-200: os.remove of the too large
\*                    file, then return through finally; when os.remove
\*                    raises, except Exception handles it
\*   transmit         lines 154-159 / 204-209: the notice of the result
\*   notify_result    end of the try body, through finally
\*   notify_error     end of the except block, through finally
\*   unwind           the exception goes through finally and leaves the run
\*   notify_stop      line 246 / 248 of stop: nothing follows the notice,
\*                    the handler returns
Code(M, in) ==
  CASE M.pc = "notify_start" ->
         IF in.urlOk
           THEN [NewSession(M) EXCEPT !.pc = "fetch", !.snd = IdleCall]
           ELSE Except([NewSession(M) EXCEPT !.req.kind = "used"],
                       NoMatchError)
    [] M.pc = "notify_missing" -> Finally(M, in.rmFin)
    [] M.pc = "notify_toolarge" ->
         IF Exists(M.fs, M.file) /\ in.rmOk
           THEN Finally([M EXCEPT !.fs[M.file] = NoFile], in.rmFin)
           ELSE Except(M, RemoveError(in.name))
    [] M.pc = "transmit" ->
         Notify([M EXCEPT !.did.sent = IF M.snd.result THEN "yes" ELSE "no"],
                ResultNotice(M.snd.result), "notify_result")
    [] M.pc \in {"notify_result", "notify_error", "unwind"} ->
         Finally(M, in.rmFin)
    [] M.pc = "notify_stop" ->
         [M EXCEPT !.pc = "done", !.req = Forget(M.req), !.snd = IdleCall,
                   !.texts = <<>>, !.run = 0]
    [] OTHER -> M

\* The coroutine runs on from M until it is suspended in an await, blocks
\* in the download call, or has ended.
RECURSIVE Cont(_, _)
Cont(M, in) ==
  IF \/ M.pc = "unwind"
     \/ /\ M.pc \in AwaitLabels \cup {"notify_stop"}
        /\ M.snd.phase = "returned"
    THEN Cont(Code(M, in), in)
    ELSE M

\* Line 140 / 190: the download call raises e, having written a file of
\* the given size at p (size = NoFile: it wrote none).  audio_file /
\* video_file is not assigned.
Raised(M, e, p, size) ==
  Except([M EXCEPT
            !.fs = IF size = NoFile THEN @ ELSE [@ EXCEPT ![p] = size],
            !.req.kind = "used",
            !.did.fetches = @ + 1,
            !.did.made = IF size = NoFile THEN NoPath ELSE p],
         e)

\* Lines 140-154 / 190-204: the download call returns path p, having
\* written a file of the given size there (size = NoFile: it wrote none);
\* then the existence check, the size check and the call of safe_send_audio
\* / safe_send_video, whose first attempt opens the file (opened: open()
\* returns it).
\* process_audio and process_video differ only in the helper chosen here,
\* which snd holds from now on; req.kind is not read again.
Returned(M, p, size, opened) ==
  LET fs2 == IF size = NoFile THEN M.fs ELSE [M.fs EXCEPT ![p] = size]
      R == [M EXCEPT !.file = p,
                     !.fs = fs2,
                     !.req.kind = "used",
                     !.did.fetches = @ + 1,
                     !.did.made = IF size = NoFile THEN NoPath ELSE p]
  IN
    IF ~Exists(fs2, p)
      THEN Notify(R, "not_found", "notify_missing")
      ELSE IF TooLarge(fs2[p])
        THEN Notify([R EXCEPT !.did.size = fs2[p]],
                    "too_large", "notify_toolarge")
        ELSE Calls([R EXCEPT !.did.size = fs2[p], !.did.xmit = @ + 1],
                   HelperSend(HelperOpen(HelperEnter(XmitHelper(M.req.kind),
                                                     DefaultMaxRetries),
                                         opened),
                              M.req.msg),
                   "transmit")

\* ---------------------------------------------------------------------
\* The steps
\* ---------------------------------------------------------------------

\* The run is in its fetch, validate or transmit step: the download is being
\* called, or a notice of the checks or the transmission is awaited.
InPipelineSteps(t) ==
  pc[t] \in {"fetch", "notify_missing", "notify_toolarge", "transmit"}

\* main(), lines 308-326: run_webhook / run_polling receive the updates of
\* the users and queue them in the order they arrive.  Update t of user u
\* arrives: a command or text that asks for an audio or a video, or /stop;
\* msg says whether update.message is set (it is None when the update
\* carries an edited message).  It arrives whatever the bot is doing; held
\* and inSteps keep what it met: the entry of u in active_downloads, and
\* whether a run of u was in its fetch, validate or transmit step.
Arrive(t, u, kind, msg) ==
  /\ pc[t] = "idle"
  /\ Arrived(t)
  /\ pc' = [pc EXCEPT ![t] = "queued"]
  /\ req' = [req EXCEPT ![t] =
               [user |-> u, kind |-> kind, msg |-> msg,
                held |-> active_downloads[u],
                inSteps |-> \E r \in Tasks :
                              InPipelineSteps(r) /\ req[r].user = u]]
  /\ ended' = NoneEnded
  /\ raised' = NoRaise
  /\ lastStop' = NoStop
  /\ UNCHANGED <<active_downloads, flagSet, files, running, cancel_flag,
                 media_file, snd, notices, hist, call>>

\* process_audio / process_video is called for update t: line 130 / 180,
\* the first notice, and what follows it when nothing is awaited.
Request(t, urlOk) ==
  /\ running = 0
  /\ pc[t] = "queued"
  /\ req[t].kind \in {"audio", "video"}
  /\ Store(t, Cont(Notify(Load(t), "downloading", "notify_start"),
                   Env(urlOk, TRUE, <<>>, TRUE)))

\* Back from the first notice: lines 131-140 / 181-190.
Start(t, urlOk) ==
  /\ Resumes(t, "notify_start")
  /\ \E h \in ReturnsNow(t) :
       Store(t, Cont([Load(t) EXCEPT !.snd = h],
                     Env(urlOk, TRUE, <<>>, TRUE)))

\* The download call raises e and is called again, once.
FetchRaisesRetries(t, e, p, size) ==
  /\ running = t
  /\ pc[t] = "fetch"
  /\ IF hist[t].fetches = 0
       THEN Store(t, [Load(t) EXCEPT
                        !.did.fetches = @ + 1,
                        !.raised = [task |-> t, at |-> "fetch", exc |-> e]])
       ELSE Store(t, Cont(Raised(Load(t), e, p, size),
                          Env(TRUE, TRUE, <<>>, TRUE)))

\* Line 140 / 190: the download call raises e, and what follows.  The
\* finally block finds audio_file / video_file None and removes nothing.
FetchRaises(t, e, p, size) ==
  /\ running = t
  /\ pc[t] = "fetch"
  /\ Store(t, Cont(Raised(Load(t), e, p, size),
                   Env(TRUE, TRUE, <<>>, TRUE)))

\* Lines 140-159 / 190-209: the download call returns, and what follows.
FetchReturns(t, p, size, opened, rmOk, name, rmFin) ==
  /\ running = t
  /\ pc[t] = "fetch"
  /\ opened \in
       Opens(IF size = NoFile THEN files ELSE [files EXCEPT ![p] = size], p)
  /\ Store(t, Cont(Returned(Load(t), p, size, opened),
                   Env(TRUE, rmOk, name, rmFin)))

\* Line 144 / 194: back from the "not found" notice.
AfterMissing(t, rmFin) ==
  /\ Resumes(t, "notify_missing")
  /\ \E h \in ReturnsNow(t) :
       Store(t, Cont([Load(t) EXCEPT !.snd = h],
                     Env(TRUE, TRUE, <<>>, rmFin)))

\* Lines 149-150 / 199-200: back from the "too large" notice.  os.remove
\* raises when the file is gone or the system refuses (rmOk false); the
\* exception is handled by except Exception, which looks for "cancelled" in
\* its message, where the name of the file stands.
AfterTooLarge(t, rmOk, name) ==
  /\ Resumes(t, "notify_toolarge")
  /\ \E h \in ReturnsNow(t) :
       Store(t, Cont([Load(t) EXCEPT !.snd = h],
                     Env(TRUE, rmOk, name, TRUE)))

\* Lines 154-159 / 204-209: safe_send_audio / safe_send_video returns sent
\* (one of the values a call of the helper can return).
AfterTransmit(t, sent) ==
  /\ Resumes(t, "transmit")
  /\ \E h \in ReturnsNow(t) :
       /\ h.result = sent
       /\ Store(t, Cont([Load(t) EXCEPT !.snd = h],
                        Env(TRUE, TRUE, <<>>, TRUE)))

\* Back from the notice of the result: end of the try body.
AfterResult(t, rmFin) ==
  /\ Resumes(t, "notify_result")
  /\ \E h \in ReturnsNow(t) :
       Store(t, Cont([Load(t) EXCEPT !.snd = h],
                     Env(TRUE, TRUE, <<>>, rmFin)))

\* Back from the notice of the except block: its end.
AfterError(t, rmFin) ==
  /\ Resumes(t, "notify_error")
  /\ \E h \in ReturnsNow(t) :
       Store(t, Cont([Load(t) EXCEPT !.snd = h],
                     Env(TRUE, TRUE, <<>>, rmFin)))

\* Lines 69-74 / 87-97 / 110-120: the reply a run or a stop awaits in a
\* helper call fails with TimedOut or NetworkError and this was not the last
\* attempt: the helper goes to asyncio.sleep(2) and the coroutine stays
\* suspended.
SendFails(t) ==
  /\ running = 0
  /\ snd[t].phase = "sending"
  /\ LET g == HelperReply(snd[t], "transient") IN
       /\ g.phase = "sleeping"
       /\ snd' = [snd EXCEPT ![t] = g]
  /\ raised' = NoRaise
  /\ GoesOn
  /\ UNCHANGED <<active_downloads, flagSet, files, running, pc, req,
                 cancel_flag, media_file, notices, hist, call>>

\* Lines 74 / 97 / 120: asyncio.sleep(2) is over, the helper begins its next
\* attempt (safe_send_audio / safe_send_video open the file again) and the
\* run is suspended in the reply of that attempt.
SleepOver(t) ==
  /\ running = 0
  /\ snd[t].phase = "sleeping"
  /\ \E o \in Opens(files, media_file[t]) :
       LET g == HelperResume(snd[t], o) IN
         /\ g.phase = "sending"
         /\ snd' = [snd EXCEPT ![t] = g]
  /\ raised' = NoRaise
  /\ GoesOn
  /\ UNCHANGED <<active_downloads, flagSet, files, running, pc, req,
                 cancel_flag, media_file, notices, hist, call>>

\* Lines 244-248 of stop: the notice it sends, by what it found under u.
StopNotice(u) ==
  IF Lookup(active_downloads, u) # NoToken THEN "stopped" ELSE "no_active"

\* Lines 242-248 of stop for user u, up to the call of safe_send_message:
\* the flag stored under u is set, if there is one, and the notice is
\* chosen.  held and inSteps are those of the update.
StopBody(u, held, inSteps) ==
  LET flag == Lookup(active_downloads, u) IN
    /\ flagSet' = IF flag # NoToken THEN flagSet \cup {flag} ELSE flagSet
    /\ lastStop' = [user |-> u, notice |-> StopNotice(u),
                    held |-> held, inSteps |-> inSteps]

\* stop is called for update t, lines 241-248: the lookup, the set, and
\* `await safe_send_message(update, ...)`.  The handler is suspended in the
\* reply of the first attempt; when update.message is None nothing is
\* awaited and the handler returns in this step.
Stop(t) ==
  /\ running = 0
  /\ pc[t] = "queued"
  /\ req[t].kind = "stop"
  /\ StopBody(req[t].user, req[t].held, req[t].inSteps)
  /\ Put(t, Cont(Notify(Load(t), StopNotice(req[t].user), "notify_stop"),
                 Env(TRUE, TRUE, <<>>, TRUE)))

\* Back from the notice of stop, line 246 / 248: the handler returns.
AfterStop(t) ==
  /\ Resumes(t, "notify_stop")
  /\ \E h \in ReturnsNow(t) :
       Store(t, Cont([Load(t) EXCEPT !.snd = h],
                     Env(TRUE, TRUE, <<>>, TRUE)))

\* main(), line 282: the Application is built without concurrent_updates,
\* and every handler is registered as it is (blocking): the Application
\* awaits the handler of one update to its end before it takes the next
\* update from the queue, in the order of arrival.  After an exception has
\* left a handler that `except Exception` does not hold (KeyboardInterrupt)
\* the Application stops.
Turn(t) ==
  /\ running = 0
  /\ \A r \in Tasks : pc[r] \in {"idle", "queued", "done"}
  /\ \A r \in Tasks : r < t => pc[r] # "queued"

\* The Application takes update t and calls its handler.
HandleRequest(t, urlOk) == Turn(t) /\ Request(t, urlOk)
HandleStop(t) == Turn(t) /\ Stop(t)

PipeInit ==
  /\ active_downloads = [u \in Users |-> NoToken]
  /\ flagSet = {}
  /\ files = [p \in Paths |-> NoFile]
  /\ running = 0
  /\ pc = [t \in Tasks |-> "idle"]
  /\ req = [t \in Tasks |-> NoReq]
  /\ cancel_flag = [t \in Tasks |-> NoToken]
  /\ media_file = [t \in Tasks |-> NoPath]
  /\ snd = [t \in Tasks |-> IdleCall]
  /\ notices = [t \in Tasks |-> <<>>]
  /\ hist = [t \in Tasks |-> HistInit]
  /\ ended = NoneEnded
  /\ raised = NoRaise
  /\ lastStop = NoStop

Init ==
  /\ PipeInit
  /\ call = IdleCall

\* The next step of the coroutine of update t, whatever it is.
Step(t) ==
  \/ \E urlOk \in BOOLEAN : Start(t, urlOk)
  \/ \E e \in FetchErrors \cup Interrupts, p \in Paths,
          s \in Sizes \cup {NoFile} : FetchRaises(t, e, p, s)
  \/ \E p \in Paths, s \in Sizes \cup {NoFile}, opened \in BOOLEAN,
          rmOk \in BOOLEAN, name \in FileNames, rmFin \in BOOLEAN :
       FetchReturns(t, p, s, opened, rmOk, name, rmFin)
  \/ \E rmFin \in BOOLEAN : AfterMissing(t, rmFin)
  \/ \E rmOk \in BOOLEAN, name \in FileNames : AfterTooLarge(t, rmOk, name)
  \/ \E sent \in BOOLEAN : AfterTransmit(t, sent)
  \/ \E rmFin \in BOOLEAN : AfterResult(t, rmFin)
  \/ \E rmFin \in BOOLEAN : AfterError(t, rmFin)
  \/ AfterStop(t)
  \/ SendFails(t)
  \/ SleepOver(t)

Next ==
  \/ \E t \in Tasks, u \in Users, k \in {"audio", "video", "stop"},
          msg \in BOOLEAN : Arrive(t, u, k, msg)
  \/ \E t \in Tasks, urlOk \in BOOLEAN : HandleRequest(t, urlOk)
  \/ \E t \in Tasks : HandleStop(t)
  \/ \E t \in Tasks, urlOk \in BOOLEAN : Start(t, urlOk)
  \/ \E t \in Tasks, e \in FetchErrors \cup Interrupts, p \in Paths,
          s \in Sizes \cup {NoFile} : FetchRaises(t, e, p, s)
  \/ \E t \in Tasks, p \in Paths, s \in Sizes \cup {NoFile},
          opened \in BOOLEAN, rmOk \in BOOLEAN, name \in FileNames,
          rmFin \in BOOLEAN :
       FetchReturns(t, p, s, opened, rmOk, name, rmFin)
  \/ \E t \in Tasks, rmFin \in BOOLEAN : AfterMissing(t, rmFin)
  \/ \E t \in Tasks, rmOk \in BOOLEAN, name \in FileNames :
       AfterTooLarge(t, rmOk, name)
  \/ \E t \in Tasks, sent \in BOOLEAN : AfterTransmit(t, sent)
  \/ \E t \in Tasks, rmFin \in BOOLEAN : AfterResult(t, rmFin)
  \/ \E t \in Tasks, rmFin \in BOOLEAN : AfterError(t, rmFin)
  \/ \E t \in Tasks : AfterStop(t)
  \/ \E t \in Tasks : SendFails(t)
  \/ \E t \in Tasks : SleepOver(t)

Spec == Init /\ [][Next]_vars

\* The bot with a loop that runs every coroutine that stays ready, a
\* download that returns or raises, and sends that return or raise.
SpecLive == Init /\ [][Next]_vars /\ \A t \in Tasks : WF_vars(Step(t))

\* ======================================================================
\* The session operations on their own
\* ======================================================================
\* The three pieces of code that touch active_downloads, called in any
\* order for any users: the store of lines 131-132 / 181-182, the finally
\* block with the pop of line 177 / 227, and lines 242-248 of stop.  The
\* dictionary then holds the entries of several users at once, and an entry
\* may be gone or replaced when its run ends.  Every order in which Spec
\* calls the three is among these orders, so what holds of the dictionary
\* and the flags in every behaviour of SpecSession holds in Spec.

\* Run t, of the user drawn for it, creates and stores its flag.
SessStart(t) ==
  /\ pc[t] = "idle"
  /\ Store(t, [NewSession(Load(t)) EXCEPT !.pc = "fetch", !.run = 0])

\* Run t goes through its finally block.
SessFinish(t) ==
  /\ pc[t] = "fetch"
  /\ Store(t, Finally(Load(t), TRUE))

\* stop is called for user u.
SessStop(u) ==
  /\ StopBody(u, active_downloads[u], FALSE)
  /\ ended' = NoneEnded
  /\ raised' = NoRaise
  /\ UNCHANGED <<active_downloads, files, running, pc, req, cancel_flag,
                 media_file, snd, notices, hist, call>>

SessInit ==
  /\ active_downloads = [u \in Users |-> NoToken]
  /\ flagSet = {}
  /\ files = [p \in Paths |-> NoFile]
  /\ running = 0
  /\ pc = [t \in Tasks |-> "idle"]
  /\ req \in [Tasks -> {[NoReq EXCEPT !.user = u, !.kind = "audio"] :
                           u \in Users}]
  /\ cancel_flag = [t \in Tasks |-> NoToken]
  /\ media_file = [t \in Tasks |-> NoPath]
  /\ snd = [t \in Tasks |-> IdleCall]
  /\ notices = [t \in Tasks |-> <<>>]
  /\ hist = [t \in Tasks |-> HistInit]
  /\ ended = NoneEnded
  /\ raised = NoRaise
  /\ lastStop = NoStop
  /\ call = IdleCall

SessNext ==
  \/ \E t \in Tasks : SessStart(t)
  \/ \E t \in Tasks : SessFinish(t)
  \/ \E u \in Users : SessStop(u)

SpecSession == SessInit /\ [][SessNext]_vars

\* ======================================================================
\* SpecRetry: one helper call, any max_retries, any outcomes
\* ======================================================================

RetryInit ==
  /\ PipeInit
  /\ call \in {NewCall(h, m) : h \in Helpers, m \in 0..MaxRetriesBound}

\* The caller enters the helper.
RetryEnter ==
  /\ call.phase = "entry"
  /\ call' = HelperAttempt(call)
  /\ UNCHANGED pipeVars

\* The try body of the current attempt finishes.
RetryReply(o) ==
  /\ call.phase = "sending"
  /\ call' = HelperReply(call, o)
  /\ UNCHANGED pipeVars

\* The backoff sleep is over.
RetryWake ==
  /\ call.phase = "sleeping"
  /\ call' = HelperWake(call)
  /\ UNCHANGED pipeVars

RetryNext ==
  \/ RetryEnter
  \/ \E o \in Outcomes : RetryReply(o)
  \/ RetryWake

SpecRetry == RetryInit /\ [][RetryNext]_vars

\* ======================================================================
\* Properties
\* ======================================================================

\* The run has stored its flag and has not reached the end of finally.
InFlight(t) ==
  pc[t] \notin
    {"idle", "queued", "notify_start", "notify_stop", "done", "escaped"}

Has(texts, text) == \E i \in 1..Len(texts) : texts[i] = text

Noticed(t, text) == Has(notices[t], text)

\* The notices and the history of run t, in progress or just ended.
RunTexts(t) == IF ended.task = t THEN ended.notices ELSE notices[t]
RunDid(t) == IF ended.task = t THEN ended.did ELSE hist[t]

\* Update t asks for a download.
IsRequest(t) == req[t].kind \in {"audio", "video", "used"}

\* Of a run with notices texts and history did: the "too large" notice was
\* sent exactly if the size found is over the limit, and never together with
\* a transmission.
TooLargeRefused(texts, did) ==
  /\ did.size # NoFile =>
       (Has(texts, "too_large") <=> did.size > SizeLimitMB * BytesPerMB)
  /\ Has(texts, "too_large") => did.xmit = 0

\* C1: for every user, at most one pipeline is in flight at any instant, and
\* of the requests of a user that arrive while a pipeline of that user is in
\* flight none is admitted: such a request never gets a session of its own.
C1_AtMostOnePipelinePerUser ==
  /\ \A u \in Users :
       Cardinality({t \in Tasks : InFlight(t) /\ req[t].user = u}) <= 1
  /\ \A t \in Tasks :
       (IsRequest(t) /\ req[t].held # NoToken) => cancel_flag[t] = NoToken

\* C2: a request that arrived while its user had an entry in
\* active_downloads is rejected: the step that takes it past its first
\* notice leaves active_downloads as it is and does not call the download.
C2_RequestRejectedWhileActive ==
  [][\A t \in Tasks :
       (IsRequest(t) /\ req[t].held # NoToken
        /\ pc[t] \in {"queued", "notify_start"}
        /\ pc'[t] \notin {"queued", "notify_start"})
       => (active_downloads' = active_downloads
           /\ pc'[t] # "fetch"
           /\ hist'[t].fetches = 0
           /\ ended'.did.fetches = 0)]_vars

\* C3: a run that has ended (by return, after an error it handled, or with
\* an exception leaving it) has stored a flag, found that same flag under
\* its user when its finally block began (it removed no flag stored by
\* another run), and has left active_downloads without it.
C3_RunReleasesItsOwnSession ==
  ended.task # 0 =>
    /\ pc[ended.task] \in {"done", "escaped"}
    /\ ended.flag # NoToken
    /\ ended.held = ended.flag
    /\ \A u \in Users : active_downloads[u] # ended.flag

\* A run was interrupted in its download: the exception left it through the
\* finally block, which released the session the run had stored.
C3_Witness ==
  /\ ended.task # 0
  /\ ended.escaped
  /\ pc[ended.task] = "escaped"
  /\ ended.did.fetches = 1
  /\ ended.flag # NoToken
  /\ ended.held = ended.flag
  /\ \A u \in Users : active_downloads[u] = NoToken

\* C4: when a run has ended, no file is left that its download produced:
\* none at the path the download returned, none at the path where the
\* download wrote before it raised.
C4_NoArtifactLeft ==
  ended.task # 0 =>
    /\ ~ended.leftover
    /\ ~Exists(files, ended.did.made)

\* C5: a /stop that arrived while its user had a session in
\* active_downloads finds that session: it reports that it stopped a
\* download and the flag of that session is set.
C5_StopSetsFlagOfPipelineInFlight ==
  (lastStop # NoStop /\ lastStop.held # NoToken) =>
    /\ lastStop.notice = "stopped"
    /\ lastStop.held \in flagSet

\* C6: a call of stop for a user without an entry in active_downloads
\* reports "no active download", sets no flag of any user and leaves
\* active_downloads as it is.
C6_StopWithoutSessionIsNoOp ==
  [][\A u \in Users :
       (lastStop' # NoStop /\ lastStop'.user = u
        /\ active_downloads[u] = NoToken)
       => (lastStop'.notice = "no_active"
           /\ flagSet' = flagSet
           /\ active_downloads' = active_downloads)]_vars

\* stop found nothing for its user while another user had a session, and no
\* flag is set.
C6_Witness ==
  /\ lastStop.notice = "no_active"
  /\ active_downloads[lastStop.user] = NoToken
  /\ flagSet = {}
  /\ \E u \in Users \ {lastStop.user} : active_downloads[u] # NoToken

\* C7: a run whose file is larger than 50 MB gets the "too large" notice,
\* never enters the transmission, and ends with the file deleted and its
\* session released; a file of 50 MB or less gets no such notice.
C7_TooLargeDeletedNeverSent ==
  /\ \A t \in Tasks : TooLargeRefused(notices[t], hist[t])
  /\ ended.task # 0 =>
       /\ TooLargeRefused(ended.notices, ended.did)
       /\ Has(ended.notices, "too_large") =>
            /\ ~ended.leftover
            /\ \A u \in Users : active_downloads[u] # ended.flag

\* C8: an attempt that succeeds is the last one: the helper has returned
\* True and has made exactly as many attempts as the position of the success
\* (k - 1 transient failures, then the success: k attempts).
C8_SentOnFirstSuccess ==
  \A i \in 1..Len(call.outs) :
    call.outs[i] = "ok" =>
      /\ i = Len(call.outs)
      /\ i <= call.max
      /\ call.phase = "returned"
      /\ call.result
      /\ call.calls = i

\* Two transient failures, then success, with max_retries = 3.
C8_Witness ==
  /\ call.phase = "returned"
  /\ call.max = DefaultMaxRetries
  /\ call.outs = <<"transient", "transient", "ok">>
  /\ call.result
  /\ call.calls = 3

\* C9: a call whose attempts all failed with a transient error returns False
\* after exactly max_retries attempts.
C9_ExhaustionReturnsFailed ==
  (call.phase = "returned"
   /\ \A i \in 1..Len(call.outs) : call.outs[i] = "transient")
  => (~call.result /\ call.calls = call.max /\ Len(call.outs) = call.max)

\* Three transient failures with max_retries = 3.
C9_Witness ==
  /\ call.phase = "returned"
  /\ call.max = DefaultMaxRetries
  /\ call.outs = <<"transient", "transient", "transient">>
  /\ ~call.result
  /\ call.calls = 3

\* C10: an attempt that fails with an error that is not transient is the last
\* one: the helper has returned False without another attempt.
C10_OtherErrorAborts ==
  \A i \in 1..Len(call.outs) :
    call.outs[i] = "other" =>
      /\ i = Len(call.outs)
      /\ call.phase = "returned"
      /\ ~call.result
      /\ call.calls = i

\* A transient failure, then another error, with two attempts still allowed.
C10_Witness ==
  /\ call.phase = "returned"
  /\ call.helper = "video"
  /\ call.max = MaxRetriesBound
  /\ call.outs = <<"transient", "other">>
  /\ ~call.result
  /\ call.calls = 2


\* The last of the texts.
Last(texts) == texts[Len(texts)]

\* C11: when the download raises an error whose message contains
\* "cancelled", the run reports "cancelled" and not the generic failure;
\* when the message holds "cancelled" in no case, it reports the generic
\* failure and not "cancelled".
C11_CancelledFetchReportedAsCancelled ==
  (raised.at = "fetch" /\ raised.exc.cls \in ExceptionClasses) =>
    LET texts == RunTexts(raised.task) IN
      /\ pc[raised.task] \in {"notify_error", "done"}
      /\ In(Text_cancelled, raised.exc.msg) =>
           /\ Last(texts) = "cancelled"
           /\ ~Has(texts, "failed")
      /\ ~In(Text_cancelled, lower(raised.exc.msg)) =>
           /\ Last(texts) = "failed"
           /\ ~Has(texts, "cancelled")

\* The download has raised "Download cancelled" and the run has reported
\* the cancellation.
C11_Witness ==
  /\ raised.at = "fetch"
  /\ raised.exc.msg = Text_Download \o Text_cancelled
  /\ pc[raised.task] = "notify_error"
  /\ notices[raised.task] = <<"downloading", "cancelled">>
  /\ hist[raised.task].fetches = 1

\* C12: while the download of a run is in progress, the loop can run the
\* handler of every update that waits, a /stop (of the user of the run or
\* of another) as well as a request.
C12_FetchLeavesLoopFree ==
  \A t \in Tasks :
    pc[t] = "fetch" =>
      \A r \in Tasks :
        pc[r] = "queued" =>
          ENABLED (Stop(r) \/ \E urlOk \in BOOLEAN : Request(r, urlOk))

\* Of the run that has just ended: no exception left it, each outcome of
\* the taxonomy it met has its notice, and the finally block did its work
\* (the file is gone unless os.remove failed, the flag of the run is in
\* active_downloads no more).
EndedCleanly ==
  /\ ~ended.escaped
  /\ (ended.file # NoPath /\ ended.did.size = NoFile) =>
       Has(ended.notices, "not_found")
  /\ (ended.did.size # NoFile
      /\ ended.did.size > SizeLimitMB * BytesPerMB) =>
       Has(ended.notices, "too_large")
  /\ ended.did.sent = "no" => Has(ended.notices, "network_issue")
  /\ ended.leftover => ended.rmFailed
  /\ \A u \in Users : active_downloads[u] # ended.flag

\* An exception raised in the try block has been handled: the last notice
\* of the run is the one the except block sends.
RaisedIsNoticed ==
  raised.task # 0 =>
    /\ pc[raised.task] \in {"notify_error", "done"}
    /\ Last(RunTexts(raised.task)) = ErrorNotice(raised.exc)

\* C13: nothing raised in the download, the validation, the transmission or
\* the clean-up leaves the run; each has its notice, the errors of the
\* clean-up included; and the clean-up runs.
C13_EveryErrorNoticedCleanUpRuns ==
  /\ \A t \in Tasks : pc[t] # "escaped"
  /\ RaisedIsNoticed
  /\ ended.task # 0 =>
       /\ EndedCleanly
       /\ ended.rmFailed => Last(ended.notices) \in {"failed", "cancelled"}

\* C14: the release of the session at the end of a run of user u removes
\* the entry of u if there is one, changes nothing if there is none, never
\* touches the entry of another user, and done once more changes nothing.
C14_FinishIsIdempotent ==
  [][\A t \in Tasks :
       (pc[t] \notin {"idle", "queued", "notify_stop", "done", "escaped"}
        /\ pc'[t] \in {"done", "escaped"})
       => LET u == req[t].user IN
            /\ active_downloads'[u] = NoToken
            /\ \A v \in Users \ {u} :
                 active_downloads'[v] = active_downloads[v]
            /\ active_downloads[u] = NoToken =>
                 active_downloads' = active_downloads
            /\ Pop(active_downloads', u) = active_downloads']_vars

\* Two runs of one user had stored their flags; the first to end removed
\* the entry, and the second has ended too: its release found nothing to
\* remove.
C14_Witness ==
  /\ ended.task # 0
  /\ ended.flag # NoToken
  /\ ended.held = NoToken
  /\ \A t \in Tasks : pc[t] = "done"
  /\ \A u \in Users : active_downloads[u] = NoToken

\* C15: a run whose download returned a path where no file exists reports
\* "not found" and stops there: it never enters the transmission, and it
\* ends with its session released.
C15_MissingFileStopsRun ==
  /\ \A t \in Tasks :
       /\ (media_file[t] # NoPath /\ hist[t].size = NoFile) =>
            /\ pc[t] = "notify_missing"
            /\ notices[t] = <<"downloading", "not_found">>
       /\ Noticed(t, "not_found") => hist[t].xmit = 0
  /\ (ended.file # NoPath /\ ended.did.size = NoFile) =>
       /\ ended.notices = <<"downloading", "not_found">>
       /\ ended.did.xmit = 0
       /\ \A u \in Users : active_downloads[u] # ended.flag

\* The download returned a path without a file; the run said so and ended,
\* nothing transmitted, no session left.
C15_Witness ==
  /\ ended.file # NoPath
  /\ ended.did.fetches = 1
  /\ ended.did.size = NoFile
  /\ ended.notices = <<"downloading", "not_found">>
  /\ ended.did.xmit = 0
  /\ ended.held = ended.flag
  /\ \A u \in Users : active_downloads[u] = NoToken

\* Of a run with notices texts and history did: it reported success only
\* if the transmission returned True, and if the transmission returned
\* False it reported the network issue and no success.
SuccessOnlyIfSent(texts, did) ==
  /\ Has(texts, "success") => did.sent = "yes"
  /\ did.sent = "no" =>
       /\ Has(texts, "network_issue")
       /\ ~Has(texts, "success")

\* C16: the success notice is sent in a run only if safe_send_audio /
\* safe_send_video returned True; when it returned False the run sends the
\* "network issue" notice and never the success notice.
C16_SuccessNoticeOnlyIfSent ==
  /\ \A t \in Tasks : SuccessOnlyIfSent(notices[t], hist[t])
  /\ SuccessOnlyIfSent(ended.notices, ended.did)

\* A run whose transmission returned False has ended, having reported the
\* network issue.
C16_Witness ==
  /\ ended.task # 0
  /\ ended.did.xmit = 1
  /\ ended.did.sent = "no"
  /\ ended.notices = <<"downloading", "network_issue">>

\* The attempts of h so far that failed with a transient error and were not
\* the last attempt allowed.
TransientBeforeLast(h) ==
  {i \in 1..Len(h.outs) : h.outs[i] = "transient" /\ i < h.max}

\* C17: the helper waits once after every transient failure of an attempt
\* that is not the last one allowed, and nowhere else: not after the last
\* attempt, a success or another error.  So while it sleeps it has waited
\* once per attempt made, and while it sends and when it has returned once
\* less.
C17_BackoffOnlyBetweenAttempts ==
  /\ call.sleeps = Cardinality(TransientBeforeLast(call))
  /\ call.phase = "sleeping" =>
       /\ call.sleeps = call.calls
       /\ call.calls < call.max
       /\ call.outs[Len(call.outs)] = "transient"
  /\ call.phase = "sending" => call.sleeps = call.calls - 1
  /\ (call.phase = "returned" /\ call.calls > 0) =>
       call.sleeps = call.calls - 1

\* Two attempts allowed, both failed with a transient error: one wait,
\* between them.
C17_Witness ==
  /\ call.phase = "returned"
  /\ call.helper = "audio"
  /\ call.max = 2
  /\ call.outs = <<"transient", "transient">>
  /\ call.calls = 2
  /\ call.sleeps = 1

\* C18: every request that entered process_audio / process_video gets to
\* the end of its run, and its flag is in active_downloads no more.
C18_EveryRunEndsAndReleases ==
  \A t \in Tasks :
    (pc[t] \in AwaitLabels \cup {"fetch"}) ~>
      (/\ ended.task = t
       /\ pc[t] \in {"done", "escaped"}
       /\ \A u \in Users : active_downloads[u] # ended.flag)

\* A run has sent its file and ended, and the release removed its own flag.
C18_Witness ==
  /\ ended.task # 0
  /\ pc[ended.task] = "done"
  /\ ended.did.sent = "yes"
  /\ ended.notices = <<"downloading", "success">>
  /\ ended.held = ended.flag
  /\ \A u \in Users : active_downloads[u] # ended.flag

\* Of a run with history did whose download returned path file (NoPath: it
\* did not return): the download was called at most once, and if it raised,
\* nothing was transmitted.
FetchedOnce(did, file) ==
  /\ did.fetches <= 1
  /\ (did.fetches = 1 /\ file = NoPath) => (did.xmit = 0 /\ did.sent = "none")

\* C19: a run calls the download at most once; after a download that
\* raised, cancelled or not, the run calls it no more and transmits nothing.
C19_FetchAtMostOnce ==
  /\ \A t \in Tasks : FetchedOnce(hist[t], media_file[t])
  /\ FetchedOnce(ended.did, ended.file)
  /\ raised.at = "fetch" =>
       /\ RunDid(raised.task).fetches = 1
       /\ RunDid(raised.task).xmit = 0
       /\ pc[raised.task] # "fetch"

\* A run whose download raised "Download timed out" has ended: one call of
\* the download, the generic notice, nothing transmitted.
C19_Witness ==
  /\ ended.task # 0
  /\ ended.did.fetches = 1
  /\ ended.file = NoPath
  /\ ended.did.xmit = 0
  /\ ended.notices = <<"downloading", "failed">>

\* C20: on the same max_retries and the same outcomes of the attempts, the
\* three helpers are at the same point (sending again, or returned), have
\* made the same number of attempts and of waits, and return the same.
C20_HelpersBehaveAlike ==
  call.phase \in {"sending", "returned"} =>
    \A k \in Helpers :
      LET other == RunCall(NewCall(k, call.max), call.outs) IN
        /\ other.phase = call.phase
        /\ other.outs = call.outs
        /\ other.calls = call.calls
        /\ other.sleeps = call.sleeps
        /\ other.result = call.result

\* safe_send_message with MaxRetriesBound attempts allowed has returned True at the
\* third, and so do the two others.
C20_Witness ==
  /\ call.helper = "message"
  /\ call.phase = "returned"
  /\ call.max = MaxRetriesBound
  /\ call.outs = <<"transient", "transient", "ok">>
  /\ call.sleeps = 2
  /\ \A k \in Helpers :
       RunCall(NewCall(k, call.max), call.outs).result = TRUE


\* C21: while a run is in its fetch, validate or transmit step,
\* active_downloads holds that run's flag under the run's user, and a /stop
\* of that user that arrived in that time does not report "no active
\* download".
C21_SessionHeldWhileRunning ==
  /\ \A t \in Tasks :
       InPipelineSteps(t) => active_downloads[req[t].user] = cancel_flag[t]
  /\ (lastStop # NoStop /\ lastStop.inSteps) => lastStop.notice # "no_active"

\* C22: the flag a run makes and stores is a new one: no run holds it, no
\* entry of active_downloads holds it, and it is not set; and a flag becomes
\* set only in a call of stop, which sets the flag stored under its user at
\* that time.  So a stop made for an earlier session never sets the flag of
\* a later one.
C22_EveryRunGetsFreshUnsetFlag ==
  [][/\ \A t \in Tasks :
          (cancel_flag[t] = NoToken /\ cancel_flag'[t] # NoToken)
          => /\ cancel_flag'[t] \notin flagSet
             /\ cancel_flag'[t] \notin flagSet'
             /\ \A r \in Tasks : cancel_flag[r] # cancel_flag'[t]
             /\ \A u \in Users : active_downloads[u] # cancel_flag'[t]
             /\ active_downloads'[req[t].user] = cancel_flag'[t]
     /\ \A f \in flagSet' \ flagSet :
          /\ lastStop' # NoStop
          /\ f = active_downloads[lastStop'.user]]_vars

\* The first run of a user was stopped (its flag is set) and has ended; the
\* second run of the same user has then stored its own flag, which is not
\* set.
C22_Witness ==
  /\ req[1].user = req[2].user
  /\ pc[1] = "done"
  /\ flagSet # {}
  /\ pc[2] = "fetch"
  /\ cancel_flag[2] # NoToken
  /\ cancel_flag[2] \notin flagSet
  /\ active_downloads[req[2].user] = cancel_flag[2]

====
